---- MODULE Spec2Model ----
(***************************************************************************)
(* A model of gen2.py, the synthetic number-plate image generator:         *)
(* euler_to_mat, make_affine_transform, generate_code, generate_bg,        *)
(* generate_im, load_plates and the command-line driver.                   *)
(*                                                                         *)
(* Real numbers are exact rationals <<n, d>> (d > 0, lowest terms).  The   *)
(* random draws of the program are taken from finite sample sets.          *)
(***************************************************************************)
EXTENDS Integers, Sequences, FiniteSets, TLC

VARIABLES
    pc,             \* the call stack: the running function first; <<>> once
                    \* the outermost call has returned; <<"raised">> after
                    \* an uncaught exception
    yaw, pitch, roll,   \* the angle triple (records of AngleTable)
    mat,            \* euler_to_mat's return value
    call,           \* make_affine_transform's arguments
    scale,          \* the sampled scale, before the canvas-fit rescale
    trans,          \* the normalized translation t' = (2t)^5/2, per axis
    M,              \* the 2x3 affine transform returned
    out_of_bounds,  \* the flag of make_affine_transform
    country, code, draws,   \* generate_code: locale, current code, draws made
    bgs, bg, found, picks,  \* generate_bg: pool, image or crop, loop flag,
                            \* picks made
    plate_data,     \* the template passed to generate_im
    plate, plate_mask, out, \* generate_im: plate, mask and composite
    sample,         \* the value generate_im returns: (image, code, is_valid)
    img_idx, written,       \* the driver: enumerate index, file being written
    folder, todo, plates    \* load_plates: the directory, entries left, pool

vars == <<pc, yaw, pitch, roll, mat, call, scale, trans, M, out_of_bounds,
          country, code, draws, bgs, bg, found, picks, plate_data, plate,
          plate_mask, out, sample, img_idx, written, folder, todo, plates>>

affine_vars == <<yaw, pitch, roll, mat, call, scale, trans, M>>
code_vars == <<country, code, draws>>
bg_vars == <<bgs, bg, found, picks>>
im_vars == <<plate_data, plate, plate_mask, out, sample, img_idx, written>>
load_vars == <<folder, todo, plates>>

----------------------------------------------------------------------------
(* Exact arithmetic standing for the program's float arithmetic.           *)

Abs(x) == IF x < 0 THEN -x ELSE x

RECURSIVE GCD(_, _)
GCD(a, b) == IF b = 0 THEN a ELSE GCD(b, a % b)

Norm(n, d) ==
    LET g == GCD(Abs(n), Abs(d))
        sg == IF d < 0 THEN -1 ELSE 1
    IN  IF n = 0 THEN <<0, 1>> ELSE <<sg * (n \div g), sg * (d \div g)>>

R(n, d) == Norm(n, d)

RNeg(x) == <<-x[1], x[2]>>

RMul(x, y) ==
    LET g1 == GCD(Abs(x[1]), y[2])
        g2 == GCD(Abs(y[1]), x[2])
    IN  IF x[1] = 0 \/ y[1] = 0 THEN <<0, 1>>
        ELSE <<(x[1] \div g1) * (y[1] \div g2), (x[2] \div g2) * (y[2] \div g1)>>

RAdd(x, y) ==
    LET g == GCD(x[2], y[2])
        l == (x[2] \div g) * y[2]
    IN  Norm(x[1] * (l \div x[2]) + y[1] * (l \div y[2]), l)

RSub(x, y) == RAdd(x, RNeg(y))

RDiv(x, y) == RMul(x, IF y[1] < 0 THEN <<-y[2], -y[1]>> ELSE <<y[2], y[1]>>)

RLt(x, y) == RSub(x, y)[1] < 0

RLe(x, y) == RSub(x, y)[1] <= 0

RMax(x, y) == IF RLt(x, y) THEN y ELSE x

RMin(x, y) == IF RLt(y, x) THEN y ELSE x

RECURSIVE RPow(_, _)
RPow(x, k) == IF k = 0 THEN <<1, 1>> ELSE RMul(x, RPow(x, k - 1))

Zero == <<0, 1>>
One == <<1, 1>>
Half == <<1, 2>>

(* The matrix product of numpy.matrix: rows of A against columns of B.     *)
RECURSIVE Dot(_, _, _, _, _)
Dot(A, B, i, j, k) ==
    IF k = 0 THEN Zero
    ELSE RAdd(Dot(A, B, i, j, k - 1), RMul(A[i][k], B[k][j]))

RECURSIVE MatRow(_, _, _, _)
MatRow(A, B, i, j) ==
    IF j = 0 THEN <<>>
    ELSE Append(MatRow(A, B, i, j - 1), Dot(A, B, i, j, Len(B)))

RECURSIVE MatRows(_, _, _)
MatRows(A, B, i) ==
    IF i = 0 THEN <<>>
    ELSE Append(MatRows(A, B, i - 1), MatRow(A, B, i, Len(B[1])))

MatMul(A, B) == MatRows(A, B, Len(A))

RECURSIVE ScaleRow(_, _, _)
ScaleRow(row, x, j) ==
    IF j = 0 THEN <<>> ELSE Append(ScaleRow(row, x, j - 1), RMul(row[j], x))

RECURSIVE ScaleRows(_, _, _)
ScaleRows(A, x, i) ==
    IF i = 0 THEN <<>>
    ELSE Append(ScaleRows(A, x, i - 1), ScaleRow(A[i], x, Len(A[i])))

MatScale(A, x) == ScaleRows(A, x, Len(A))

----------------------------------------------------------------------------
(* Angles whose cosine and sine are rational: 0, the angles of the         *)
(* 7-24-25 and 3-4-5 triangles, and the multiples of a quarter turn.       *)
(* mrad is the angle in milliradians, rounded away from zero.              *)

Ang(m, c, s) == [mrad |-> m, c |-> c, s |-> s]

AngleTable ==
    { Ang(0, One, Zero),
      Ang(284, R(24, 25), R(7, 25)),  Ang(-284, R(24, 25), R(-7, 25)),
      Ang(644, R(4, 5), R(3, 5)),     Ang(-644, R(4, 5), R(-3, 5)),
      Ang(928, R(3, 5), R(4, 5)),     Ang(-928, R(3, 5), R(-4, 5)),
      Ang(1571, Zero, One),           Ang(-1571, Zero, R(-1, 1)),
      Ang(3142, R(-1, 1), Zero) }

ZeroAngle == Ang(0, One, Zero)

cos(a) == a.c
sin(a) == a.s

(* A mutant of euler_to_mat: the yaw and pitch factors swapped.            *)
euler_to_mat_swapped(y, p, r) ==
    LET M1 == <<<<One, Zero, Zero>>,
                <<Zero, cos(p), RNeg(sin(p))>>,
                <<Zero, sin(p), cos(p)>>>>
        M2 == MatMul(<<<<cos(y), Zero, sin(y)>>,
                       <<Zero, One, Zero>>,
                       <<RNeg(sin(y)), Zero, cos(y)>>>>, M1)
    IN  MatMul(<<<<cos(r), RNeg(sin(r)), Zero>>,
                 <<sin(r), cos(r), Zero>>,
                 <<Zero, Zero, One>>>>, M2)

euler_to_mat(y, p, r) ==
    LET M1 == <<<<cos(y), Zero, sin(y)>>,
                <<Zero, One, Zero>>,
                <<RNeg(sin(y)), Zero, cos(y)>>>>
        M2 == MatMul(<<<<One, Zero, Zero>>,
                       <<Zero, cos(p), RNeg(sin(p))>>,
                       <<Zero, sin(p), cos(p)>>>>, M1)
    IN  MatMul(<<<<cos(r), RNeg(sin(r)), Zero>>,
                 <<sin(r), cos(r), Zero>>,
                 <<Zero, Zero, One>>>>, M2)

----------------------------------------------------------------------------
(* make_affine_transform                                                   *)

(* Lengths are in units of 32 pixels, which keeps the exact arithmetic of  *)
(* the transform within TLC's integers: OUTPUT_SHAPE is 64 by 128 pixels.  *)
OUTPUT_SHAPE == <<2, 4>>

(* Samples of the translation fraction (random() - 0.5) * variation: with  *)
(* random() of [0, 1) it is 0 for variation 0 and otherwise any value of   *)
(* [-variation/2, variation/2).                                            *)
TransSamples == { R(-3, 5), R(-1, 2), R(0, 1), R(3, 5) }

TransDraws(variation) ==
    { t \in TransSamples :
        \/ variation = <<0, 1>> /\ t = <<0, 1>>
        \/ RLe(RNeg(RMul(variation, <<1, 2>>)), t)
             /\ RLt(t, RMul(variation, <<1, 2>>)) }

(* The angles random.uniform(-limit, limit) * variation can take, among    *)
(* the angles of `samples`; limit is in milliradians.                      *)
AngleDraws(samples, limit, variation) ==
    { a \in samples : Abs(a.mrad) * variation[2] <= limit * variation[1] }

RollSamples == { a \in AngleTable : a.mrad \in {0, 284} }
PitchSamples == { a \in AngleTable : a.mrad \in {-284, 0} }
YawSamples == { a \in AngleTable : a.mrad \in {-928, 0} }

(* Samples of the scale.  random.uniform(a, b) is a + (b - a) * random()  *)
(* and lies in [a, b], either end included.                                *)
ScaleSamples ==
    { R(11, 20), R(3, 5), R(4, 5), R(17, 20), R(1, 1), R(11, 10), R(23, 20) }

(* A mutant of ScaleDraws: the half-width ignores scale_variation.         *)
ScaleDrawsUnscaled(min_scale, max_scale, scale_variation) ==
    { s \in ScaleSamples : RLe(min_scale, s) /\ RLe(s, max_scale) }

(* Lines 92-95: the values the sampled scale can take.                     *)
ScaleDraws(min_scale, max_scale, scale_variation) ==
    LET mid == RMul(RAdd(min_scale, max_scale), Half)
        half == RMul(RMul(RSub(max_scale, min_scale), Half), scale_variation)
    IN  { s \in ScaleSamples : RLe(RSub(mid, half), s) /\ RLe(s, RAdd(mid, half)) }

(* A mutant of ScaleOutOfBounds: the bounds themselves are flagged.        *)
ScaleOutOfBoundsExclusive(s, min_scale, max_scale) ==
    RLe(max_scale, s) \/ RLe(s, min_scale)

ScaleOutOfBounds(s, min_scale, max_scale) ==
    RLt(max_scale, s) \/ RLt(s, min_scale)

Limit == R(80, 100)

TransOutOfBounds(t) ==
    \/ \E i \in 1..2 : RLt(t[i], RNeg(Limit))
    \/ \E i \in 1..2 : RLt(Limit, t[i])

NormalizedTrans(t) ==
    <<RMul(RPow(RMul(<<2, 1>>, t[1]), 5), Half),
      RMul(RPow(RMul(<<2, 1>>, t[2]), 5), Half)>>

Block2(A) == <<<<A[1][1], A[1][2]>>, <<A[2][1], A[2][2]>>>>

RowMax(A, i) == RMax(RMax(A[i][1], A[i][2]), RMax(A[i][3], A[i][4]))
RowMin(A, i) == RMin(RMin(A[i][1], A[i][2]), RMin(A[i][3], A[i][4]))

(* The size of the bounding box of the rotated source image.               *)
SkewedSize(L, from_shape) ==
    LET h == R(from_shape[1], 1)
        w == R(from_shape[2], 1)
        corners == MatScale(<<<<RNeg(w), w, RNeg(w), w>>,
                              <<RNeg(h), RNeg(h), h, h>>>>, Half)
        P == MatMul(L, corners)
    IN  <<RSub(RowMax(P, 1), RowMin(P, 1)), RSub(RowMax(P, 2), RowMin(P, 2))>>

(* The final scale of line 113: the sampled scale times the canvas fit.    *)
FitScale(s, to_size, skewed_size) ==
    RMul(s, RMin(RDiv(to_size[1], skewed_size[1]),
                 RDiv(to_size[2], skewed_size[2])))

(* The pixel translation of line 121.                                      *)
PixelTrans(to_size, skewed_size, s, t) ==
    <<RMul(RSub(to_size[1], RMul(skewed_size[1], s)), t[1]),
      RMul(RSub(to_size[2], RMul(skewed_size[2], s)), t[2])>>

(* Lines 123-128: the 2x3 matrix [L*s | tpx + center_to - L*s*center_from]. *)
AffineMatrix(L, s, tpx, from_size, to_size) ==
    LET Ls == MatScale(L, s)
        Lc == MatMul(Ls, <<<<RMul(from_size[1], Half)>>,
                           <<RMul(from_size[2], Half)>>>>)
    IN  <<<<Ls[1][1], Ls[1][2],
            RSub(RAdd(tpx[1], RMul(to_size[1], Half)), Lc[1][1])>>,
          <<Ls[2][1], Ls[2][2],
            RSub(RAdd(tpx[2], RMul(to_size[2], Half)), Lc[2][1])>>>>

(* Lines 96-97 and 117-120: the flag, from the sampled scale and the       *)
(* normalized translation.                                                 *)
OutOfBounds(c, scale0, t) ==
    ScaleOutOfBounds(scale0, c.min_scale, c.max_scale) \/ TransOutOfBounds(t)

(* make_affine_transform, as the set of the results the call with          *)
(* arguments c can return, one for each outcome of its draws: the matrix,  *)
(* the flag, and the draws behind them (the scale of lines 92-95, the      *)
(* normalized translation of line 117, roll, pitch and yaw).  The locals   *)
(* are bound in the order of the code's assignments.                       *)
Translated(c, scale0, r, p, y, L, skewed_size, scale1) ==
    LET from_size == <<R(c.from_shape[2], 1), R(c.from_shape[1], 1)>>
        to_size == <<R(c.to_shape[2], 1), R(c.to_shape[1], 1)>>
    IN  { [M |-> AffineMatrix(L, scale1,
                              PixelTrans(to_size, skewed_size, scale1, t),
                              from_size, to_size),
           out_of_bounds |-> OutOfBounds(c, scale0, t),
           scale |-> scale0, trans |-> t,
           roll |-> r, pitch |-> p, yaw |-> y] :
          t \in { NormalizedTrans(<<t1, t2>>) :
                    t1 \in TransDraws(c.translation_variation),
                    t2 \in TransDraws(c.translation_variation) } }

Fitted(c, scale0, r, p, y, L, skewed_size) ==
    UNION { Translated(c, scale0, r, p, y, L, skewed_size, scale1) :
            scale1 \in { FitScale(scale0,
                                  <<R(c.to_shape[2], 1), R(c.to_shape[1], 1)>>,
                                  skewed_size) } }

Rotated(c, scale0, r, p, y, L) ==
    UNION { Fitted(c, scale0, r, p, y, L, skewed_size) :
            skewed_size \in { SkewedSize(L, c.from_shape) } }

Scaled(c, scale0, r, p, y) ==
    UNION { Rotated(c, scale0, r, p, y, L) :
            L \in { Block2(euler_to_mat(y, p, r)) } }

make_affine_transform(c) ==
    UNION { Scaled(c, scale0, r, p, y) :
            scale0 \in ScaleDraws(c.min_scale, c.max_scale, c.scale_variation),
            r \in AngleDraws(RollSamples, 500, c.rotation_variation),
            p \in AngleDraws(PitchSamples, 400, c.rotation_variation),
            y \in AngleDraws(YawSamples, 1200, c.rotation_variation) }

(* The flags that make_affine_transform(c) can return: the flag depends on *)
(* the draws of the scale and of the translation only.                     *)
OutOfBoundsDraws(c) ==
    { OutOfBounds(c, scale0, NormalizedTrans(<<t1, t2>>)) :
        scale0 \in ScaleDraws(c.min_scale, c.max_scale, c.scale_variation),
        t1 \in TransDraws(c.translation_variation),
        t2 \in TransDraws(c.translation_variation) }

(* The calls of make_affine_transform the model makes: positive shapes,    *)
(* min_scale <= max_scale, variation coefficients of [0, 1.5].             *)
Calls ==
    [ from_shape : { <<1, 4>>, <<2, 2>> },
      to_shape : { OUTPUT_SHAPE, <<3, 3>> },
      min_scale : { R(6, 10) },
      max_scale : { R(11, 10), R(1, 1) },
      scale_variation : { R(0, 1), R(1, 1), R(12, 10) },
      rotation_variation : { R(0, 1), R(9, 10), R(1, 1) },
      translation_variation : { R(0, 1), R(1, 1), R(12, 10), R(3, 2) } ]

NoCall == [from_shape |-> <<>>]

(* An image: its shape (height, width) and the values of two of its        *)
(* pixels.  None is what cv2.imread returns for a file it cannot read.     *)
Img(shape, px) == [shape |-> shape, px |-> px]

None == [shape |-> <<>>, px |-> <<>>]

NoPlate == [name |-> 0]

(* The values of the variables of the functions that are not running.      *)
IdleAffine ==
    /\ yaw = ZeroAngle /\ pitch = ZeroAngle /\ roll = ZeroAngle
    /\ mat = <<>> /\ call = NoCall /\ scale = Zero /\ trans = <<>> /\ M = <<>>

IdleCode == country = "None" /\ code = <<>> /\ draws = 0

IdleBg == bg = None /\ found = FALSE /\ picks = 0

IdleIm ==
    /\ plate_data = NoPlate /\ plate = None /\ plate_mask = None /\ out = None
    /\ sample = <<>> /\ img_idx = 0 /\ written = <<>>

IdleLoad == todo = {} /\ plates = {}

InitAffine ==
    /\ pc = <<"make_affine_transform">>
    /\ call \in Calls
    /\ yaw = ZeroAngle /\ pitch = ZeroAngle /\ roll = ZeroAngle
    /\ mat = <<>> /\ scale = Zero /\ trans = <<>> /\ M = <<>>
    /\ out_of_bounds = FALSE
    /\ IdleCode /\ bgs = <<>> /\ IdleBg /\ IdleIm /\ folder = <<>> /\ IdleLoad

MakeAffineTransform ==
    /\ pc # <<>> /\ Head(pc) = "make_affine_transform"
    /\ \E res \in make_affine_transform(call) :
         /\ roll' = res.roll /\ pitch' = res.pitch /\ yaw' = res.yaw
         /\ scale' = res.scale
         /\ trans' = res.trans
         /\ M' = res.M
         /\ out_of_bounds' = res.out_of_bounds
    /\ pc' = Tail(pc)
    /\ UNCHANGED <<mat, call, code_vars, bg_vars, im_vars, load_vars>>

NextAffine == MakeAffineTransform

SpecAffine == InitAffine /\ [][NextAffine]_vars

----------------------------------------------------------------------------
(* generate_code                                                           *)

(* banned_combinations["se"], each entry a sequence of characters.  The    *)
(* source writes "LSD" "LUS" and "NRP" "NSF" without a comma, so each pair *)
(* is one entry of six characters.                                         *)
BannedSe ==
    {
      <<"A", "P", "A">>, <<"A", "R", "G">>, <<"A", "S", "S">>,
      <<"B", "A", "J">>, <<"B", "S", "S">>, <<"C", "U", "C">>,
      <<"C", "U", "K">>, <<"D", "U", "M">>, <<"E", "T", "A">>,
      <<"E", "T", "T">>, <<"F", "A", "G">>, <<"F", "A", "N">>,
      <<"F", "E", "G">>, <<"F", "E", "L">>, <<"F", "E", "M">>,
      <<"F", "E", "S">>, <<"F", "E", "T">>, <<"F", "N", "L">>,
      <<"F", "U", "C">>, <<"F", "U", "K">>, <<"F", "U", "L">>,
      <<"G", "A", "M">>, <<"G", "A", "Y">>, <<"G", "E", "J">>,
      <<"G", "E", "Y">>, <<"G", "H", "B">>, <<"G", "U", "D">>,
      <<"G", "Y", "N">>, <<"H", "A", "T">>, <<"H", "B", "T">>,
      <<"H", "K", "H">>, <<"H", "O", "R">>, <<"H", "O", "T">>,
      <<"K", "G", "B">>, <<"K", "K", "K">>, <<"K", "U", "C">>,
      <<"K", "U", "F">>, <<"K", "U", "G">>, <<"K", "U", "K">>,
      <<"K", "Y", "K">>, <<"L", "A", "M">>, <<"L", "A", "T">>,
      <<"L", "E", "M">>, <<"L", "O", "J">>, <<"L", "S", "D", "L", "U", "S">>,
      <<"M", "A", "D">>, <<"M", "A", "O">>, <<"M", "E", "N">>,
      <<"M", "E", "S">>, <<"M", "L", "B">>, <<"M", "U", "S">>,
      <<"N", "A", "Z">>, <<"N", "R", "P", "N", "S", "F">>, <<"N", "Y", "P">>,
      <<"O", "N", "D">>, <<"O", "O", "O">>, <<"O", "R", "M">>,
      <<"P", "A", "J">>, <<"P", "K", "K">>, <<"P", "L", "O">>,
      <<"P", "M", "S">>, <<"P", "U", "B">>, <<"R", "A", "P">>,
      <<"R", "A", "S">>, <<"R", "O", "M">>, <<"R", "P", "S">>,
      <<"R", "U", "S">>, <<"S", "E", "G">>, <<"S", "E", "X">>,
      <<"S", "J", "U">>, <<"S", "O", "S">>, <<"S", "P", "Y">>,
      <<"S", "U", "G">>, <<"S", "U", "P">>, <<"S", "U", "R">>,
      <<"T", "B", "C">>, <<"T", "O", "A">>, <<"T", "O", "K">>,
      <<"T", "R", "E">>, <<"T", "Y", "P">>, <<"U", "F", "O">>,
      <<"U", "S", "A">>, <<"W", "A", "M">>, <<"W", "A", "R">>,
      <<"W", "W", "W">>, <<"X", "T", "C">>, <<"X", "T", "Z">>,
      <<"X", "X", "L">>, <<"X", "X", "X">>, <<"Z", "E", "X">>,
      <<"Z", "O", "G">>, <<"Z", "P", "Y">>, <<"Z", "U", "G">>,
      <<"Z", "U", "P">>, <<"Z", "O", "O">>
    }

banned_combinations(c) == IF c = "se" THEN BannedSe ELSE {}

Countries == { "None", "se" }

(* common.LETTERS and common.DIGITS, the alphabets that random.choice      *)
(* draws from: the capital letters and the decimal digits.                 *)
LETTERS ==
    { "A", "B", "C", "D", "E", "F", "G", "H", "I", "J", "K", "L", "M",
      "N", "O", "P", "Q", "R", "S", "T", "U", "V", "W", "X", "Y", "Z" }

DIGITS == { "0", "1", "2", "3", "4", "5", "6", "7", "8", "9" }

(* The letters and digits the draws of the model are made of.              *)
LetterSamples == LETTERS \cap { "A", "F", "G" }

DigitSamples == DIGITS \cap { "0", "7" }

(* "{}{}{} {}{}{}".format of three letters and three digits.               *)
Codes ==
    { <<l1, l2, l3, " ", d1, d2, d3>> :
        l1 \in LetterSamples, l2 \in LetterSamples, l3 \in LetterSamples,
        d1 \in DigitSamples, d2 \in DigitSamples, d3 \in DigitSamples }

(* Python's `bad in code` on strings.                                      *)
In(bad, c) ==
    \E i \in 0..(Len(c) - Len(bad)) : SubSeq(c, i + 1, i + Len(bad)) = bad

(* A mutant of LoopContinues: the denylist of "se" is used for every       *)
(* locale.                                                                 *)
LoopContinuesAnyLocale(c, cn) ==
    c = <<>> \/ \E bad \in BannedSe : In(bad, c)

(* A mutant of LoopContinues: all() in place of any().                     *)
LoopContinuesAll(c, cn) ==
    c = <<>> \/ \A bad \in banned_combinations(cn) : In(bad, c)

(* The condition of the while loop of line 149; <<>> is None.              *)
LoopContinues(c, cn) ==
    c = <<>> \/ \E bad \in banned_combinations(cn) : In(bad, c)

MaxDraws == 3

InitCode ==
    /\ pc = <<"generate_code">>
    /\ country \in Countries
    /\ code = <<>> /\ draws = 0
    /\ IdleAffine /\ out_of_bounds = FALSE
    /\ bgs = <<>> /\ IdleBg /\ IdleIm /\ folder = <<>> /\ IdleLoad

(* One pass of the loop body: a new code is drawn.  The count of draws     *)
(* stops at MaxDraws.                                                      *)
DrawCode ==
    /\ pc # <<>> /\ Head(pc) = "generate_code"
    /\ LoopContinues(code, country)
    /\ code' \in Codes
    /\ draws' = IF draws < MaxDraws THEN draws + 1 ELSE draws
    /\ UNCHANGED <<pc, affine_vars, out_of_bounds, country, bg_vars, im_vars,
                   load_vars>>

ReturnCode ==
    /\ pc # <<>> /\ Head(pc) = "generate_code"
    /\ ~LoopContinues(code, country)
    /\ pc' = Tail(pc)
    /\ UNCHANGED <<affine_vars, out_of_bounds, code_vars, bg_vars, im_vars,
                   load_vars>>

NextCode == DrawCode \/ ReturnCode

SpecCode == InitCode /\ [][NextCode]_vars

(* A draw that ends the loop: its code has no banned substring.            *)
DrawAccepted == DrawCode /\ ~LoopContinues(code', country)

(* random.choice draws every code again and again, so a draw that ends the *)
(* loop is made eventually; the return then follows.                       *)
SpecCodeFair ==
    InitCode /\ [][NextCode]_vars /\ WF_vars(DrawAccepted) /\ WF_vars(ReturnCode)

----------------------------------------------------------------------------
(* generate_bg                                                             *)

Min(a, b) == IF a < b THEN a ELSE b

(* Samples of the files of bgs/: unreadable or missing, exactly the canvas,*)
(* larger, too low, too narrow.                                            *)
BgSamples ==
    { None, Img(OUTPUT_SHAPE, <<90, 160>>), Img(<<3, 5>>, <<10, 250>>),
      Img(<<1, 6>>, <<90, 160>>), Img(<<3, 3>>, <<90, 160>>) }

MaxBg == 2

MaxPicks == 3

Pools == UNION { [1..n -> BgSamples] : n \in 0..MaxBg }

(* A mutant of Accepts: one dimension large enough is taken for both.      *)
AcceptsEither(im) ==
    /\ im # None
    /\ (im.shape[2] >= OUTPUT_SHAPE[2] \/ im.shape[1] >= OUTPUT_SHAPE[1])

(* Lines 200-203: the try block sets found; bg.shape of None raises, which *)
(* the bare except turns into another pass of the loop.                    *)
Accepts(im) ==
    /\ im # None
    /\ im.shape[2] >= OUTPUT_SHAPE[2]
    /\ im.shape[1] >= OUTPUT_SHAPE[1]

(* The slice bg[y:y + H, x:x + W] of line 210; a numpy slice stops at the  *)
(* end of the array.                                                       *)
Crop(im, x, y) ==
    [shape |-> <<Min(im.shape[1], y + OUTPUT_SHAPE[1]) - y,
                 Min(im.shape[2], x + OUTPUT_SHAPE[2]) - x>>,
     px |-> im.px, x |-> x, y |-> y, of |-> im.shape]

InitBg ==
    /\ pc = <<"generate_bg">>
    /\ bgs \in Pools
    /\ IdleBg
    /\ IdleAffine /\ out_of_bounds = FALSE /\ IdleCode /\ IdleIm
    /\ folder = <<>> /\ IdleLoad

(* One pass of the while loop: random.randint(0, num_bg_images - 1) raises *)
(* ValueError for an empty pool, outside the try block.                    *)
PickBg ==
    /\ pc # <<>> /\ Head(pc) = "generate_bg"
    /\ ~found
    /\ IF Len(bgs) = 0
       THEN /\ pc' = <<"raised">>
            /\ UNCHANGED <<bg, found, picks>>
       ELSE /\ \E i \in 1..Len(bgs) :
                 /\ bg' = bgs[i]
                 /\ found' = Accepts(bgs[i])
            /\ picks' = IF picks < MaxPicks THEN picks + 1 ELSE picks
            /\ UNCHANGED pc
    /\ UNCHANGED <<affine_vars, out_of_bounds, code_vars, bgs, im_vars,
                   load_vars>>

(* Lines 207-212: the window is drawn and cut out.  random.randint raises  *)
(* ValueError for an empty range.                                          *)
CropBg ==
    /\ pc # <<>> /\ Head(pc) = "generate_bg"
    /\ found
    /\ IF bg.shape[2] < OUTPUT_SHAPE[2] \/ bg.shape[1] < OUTPUT_SHAPE[1]
       THEN /\ pc' = <<"raised">>
            /\ UNCHANGED bg
       ELSE /\ \E x \in 0..(bg.shape[2] - OUTPUT_SHAPE[2]) :
               \E y \in 0..(bg.shape[1] - OUTPUT_SHAPE[1]) :
                 bg' = Crop(bg, x, y)
            /\ pc' = Tail(pc)
    /\ UNCHANGED <<affine_vars, out_of_bounds, code_vars, bgs, found, picks,
                   im_vars, load_vars>>

NextBg == PickBg \/ CropBg

SpecBg == InitBg /\ [][NextBg]_vars

----------------------------------------------------------------------------
(* load_plates                                                             *)

Required == { "data.json", "font.ttf", "frame.png" }

(* The frame image of the templates of the model; cv2.imread gives None   *)
(* for a frame.png it cannot decode.                                       *)
FrameImage == Img(<<2, 8>>, <<200, 40>>)

(* The entries of the folder: a plain file, or a directory with some of    *)
(* the files; data is what data.json holds: "offset" a non-empty offset,   *)
(* "empty" an empty one, "missing" none; frame is what frame.png decodes   *)
(* to.                                                                     *)
Entry(isdir, files, data, frame) ==
    [isdir |-> isdir, files |-> files, data |-> data, frame |-> frame]

Entries ==
    { Entry(FALSE, {}, "offset", None) }
    \cup { Entry(TRUE, F, "offset", FrameImage) : F \in SUBSET Required }
    \cup { Entry(TRUE, Required, d, FrameImage) : d \in { "empty", "missing" } }
    \cup { Entry(TRUE, Required, "offset", None) }

NumEntries == 2

(* A mutant of AllExists: one file found is taken for all three.           *)
AllExistsAny(files) == \E f \in Required : f \in files

(* Lines 253-262: os.path.exists of each of the three files.               *)
AllExists(files) == \A f \in Required : f \in files

InitLoad ==
    /\ pc = <<"load_plates">>
    /\ folder \in [1..NumEntries -> Entries]
    /\ todo = DOMAIN folder
    /\ plates = {}
    /\ IdleAffine /\ out_of_bounds = FALSE /\ IdleCode
    /\ bgs = <<>> /\ IdleBg /\ IdleIm

(* One pass of the for loop over os.listdir, for the entry p.              *)
LoadEntry ==
    /\ pc # <<>> /\ Head(pc) = "load_plates"
    /\ \E p \in todo :
         IF ~folder[p].isdir \/ ~AllExists(folder[p].files)
         THEN /\ todo' = todo \ {p}
              /\ UNCHANGED <<pc, plates>>
         ELSE IF folder[p].data # "offset"
         THEN /\ pc' = <<"raised">>
              /\ UNCHANGED <<todo, plates>>
         ELSE /\ plates' = { q \in plates : q.name # p }
                              \cup { [name |-> p, frame |-> folder[p].frame] }
              /\ todo' = todo \ {p}
              /\ UNCHANGED pc
    /\ UNCHANGED <<affine_vars, out_of_bounds, code_vars, bg_vars, im_vars,
                   folder>>

ReturnPlates ==
    /\ pc # <<>> /\ Head(pc) = "load_plates"
    /\ todo = {}
    /\ pc' = Tail(pc)
    /\ UNCHANGED <<affine_vars, out_of_bounds, code_vars, bg_vars, im_vars,
                   load_vars>>

NextLoad == LoadEntry \/ ReturnPlates

SpecLoad == InitLoad /\ [][NextLoad]_vars

----------------------------------------------------------------------------
(* generate_plate, generate_im, generate_ims and the command-line driver   *)

(* Python 3's round on a non-negative fraction: halves go to the even      *)
(* neighbour.                                                              *)
Round(q) ==
    LET f == q[1] \div q[2]
        r2 == 2 * (q[1] - f * q[2])
    IN  IF r2 < q[2] THEN f
        ELSE IF r2 > q[2] THEN f + 1
        ELSE IF f % 2 = 0 THEN f ELSE f + 1

(* Lines 186-188: the shape of the plate resized to the width of the       *)
(* canvas.                                                                 *)
ResizedShape(shape) ==
    <<Round(RMul(R(shape[1], 1), R(OUTPUT_SHAPE[2], shape[2]))), OUTPUT_SHAPE[2]>>

(* code.replace(" ", "") of line 182.                                      *)
Replace(c) == SelectSeq(c, LAMBDA ch : ch # " ")

(* What draw.text, cv2.resize and cv2.cvtColor leave at the two pixels the *)
(* model follows.                                                          *)
PlatePixels == { <<0, 200>>, <<40, 255>> }

(* The arguments of the call of lines 221-228.                             *)
ImCall(from_shape, to_shape) ==
    [ from_shape |-> from_shape, to_shape |-> to_shape,
      min_scale |-> R(6, 10), max_scale |-> R(11, 10),
      rotation_variation |-> R(9, 10), scale_variation |-> R(12, 10),
      translation_variation |-> R(12, 10) ]

(* cv2.warpAffine at the two pixels the model follows: the share of each   *)
(* pixel that the warped source covers; the border is 0.                   *)
Coverages == { <<Zero, Zero>>, <<Zero, One>>, <<Half, One>>, <<One, One>> }

WarpPlate(px, cov) ==
    <<Round(RMul(R(px[1], 1), cov[1])), Round(RMul(R(px[2], 1), cov[2]))>>

(* A mutant of CompositePixel: the mask is applied the other way round.    *)
CompositePixelSwapped(p, m, b) ==
    RAdd(RMul(R(p, 1), RSub(One, m)), RMul(R(b, 1), m))

(* Line 236, at one pixel.                                                 *)
CompositePixel(p, m, b) ==
    RAdd(RMul(R(p, 1), m), RMul(R(b, 1), RSub(One, m)))

(* A mutant of Suffix: the two letters are exchanged.                      *)
SuffixInverted(p) == IF p THEN "0" ELSE "1"

(* Line 300: "1" if p else "0".                                            *)
Suffix(p) == IF p THEN "1" ELSE "0"

MaxImages == 2

(* The plates folder and the bgs folder of a run.                          *)
Folders ==
    { <<Entry(TRUE, Required, "offset", FrameImage), Entry(FALSE, {}, "offset", None)>>,
      <<Entry(TRUE, { "data.json", "frame.png" }, "offset", FrameImage)>>,
      <<Entry(TRUE, Required, "offset", FrameImage), Entry(TRUE, Required, "empty", FrameImage)>>,
      <<Entry(TRUE, Required, "offset", None)>> }

BgFolders ==
    { <<>>, <<Img(<<2, 5>>, <<10, 250>>)>>,
      <<None, Img(OUTPUT_SHAPE, <<90, 160>>)>> }

Init ==
    /\ pc = <<"for">>
    /\ folder \in Folders
    /\ bgs \in BgFolders
    /\ IdleAffine /\ out_of_bounds = FALSE
    /\ IdleCode /\ IdleBg /\ IdleIm /\ IdleLoad

(* Line 299: the loop asks im_gen for the next sample; islice stops after  *)
(* int(sys.argv[1]) of them.  The first request starts generate_ims, which *)
(* calls load_plates; the later ones resume it after its yield.            *)
ForNext ==
    /\ pc # <<>> /\ Head(pc) = "for"
    /\ IF img_idx = MaxImages
       THEN /\ pc' = Tail(pc)
            /\ UNCHANGED load_vars
       ELSE IF img_idx = 0
       THEN /\ pc' = <<"load_plates", "generate_ims">> \o pc
            /\ todo' = DOMAIN folder
            /\ plates' = {}
            /\ UNCHANGED folder
       ELSE /\ pc' = <<"generate_ims">> \o pc
            /\ UNCHANGED load_vars
    /\ sample' = <<>> /\ written' = <<>>
    /\ code' = <<>>
    /\ UNCHANGED <<affine_vars, out_of_bounds, country, draws, bg_vars,
                   plate_data, plate, plate_mask, out, img_idx>>

(* Lines 290-292: random.choice raises IndexError for an empty list;       *)
(* generate_im is called and calls generate_bg.                            *)
ChoosePlate ==
    /\ pc # <<>> /\ Head(pc) = "generate_ims"
    /\ IF plates = {}
       THEN /\ pc' = <<"raised">>
            /\ UNCHANGED <<plate_data, bg, found, picks>>
       ELSE /\ plate_data' \in plates
            /\ pc' = <<"generate_bg", "generate_im.216", "yield">> \o Tail(pc)
            /\ bg' = None /\ found' = FALSE /\ picks' = 0
    /\ UNCHANGED <<affine_vars, out_of_bounds, code_vars, bgs, plate,
                   plate_mask, out, sample, img_idx, written, load_vars>>

(* Lines 218 and 167: generate_plate is called; it calls generate_code().  *)
CallGeneratePlate ==
    /\ pc # <<>> /\ Head(pc) = "generate_im.216"
    /\ pc' = <<"generate_code", "generate_plate", "generate_im.218">> \o Tail(pc)
    /\ country' = "None" /\ code' = <<>> /\ draws' = 0
    /\ found' = FALSE /\ picks' = 0
    /\ UNCHANGED <<affine_vars, out_of_bounds, bgs, bg, im_vars, load_vars>>

(* Lines 169-192: the text is drawn on a copy of the frame, which is cut   *)
(* to the width of the canvas; None has no copy().                         *)
GeneratePlate ==
    /\ pc # <<>> /\ Head(pc) = "generate_plate"
    /\ IF plate_data.frame = None
       THEN /\ pc' = <<"raised">>
            /\ UNCHANGED <<plate, code>>
       ELSE /\ \E px \in PlatePixels :
                 plate' = Img(ResizedShape(plate_data.frame.shape), px)
            /\ code' = Replace(code)
            /\ pc' = Tail(pc)
    /\ UNCHANGED <<affine_vars, out_of_bounds, country, draws, bg_vars,
                   plate_data, plate_mask, out, sample, img_idx, written,
                   load_vars>>

(* Lines 219-236: the mask, the plan, the two warps and the composite.     *)
(* The matrix of the plan goes to cv2.warpAffine only; the flag is kept.   *)
Composite ==
    /\ pc # <<>> /\ Head(pc) = "generate_im.218"
    /\ out_of_bounds' \in OutOfBoundsDraws(ImCall(plate.shape, bg.shape))
    /\ \E cov \in Coverages :
         LET warped == WarpPlate(plate.px, cov)
         IN  /\ plate' = Img(bg.shape, warped)
             /\ plate_mask' = Img(bg.shape, cov)
             /\ out' = Img(bg.shape,
                           <<CompositePixel(warped[1], cov[1], bg.px[1]),
                             CompositePixel(warped[2], cov[2], bg.px[2])>>)
    /\ pc' = <<"generate_im.238">> \o Tail(pc)
    /\ UNCHANGED <<affine_vars, code_vars, bg_vars, plate_data, sample,
                   img_idx, written, load_vars>>

(* Lines 238-244: the resize to the shape the composite already has, the   *)
(* division by 255 and the return; the locals of generate_im are gone.     *)
ReturnIm ==
    /\ pc # <<>> /\ Head(pc) = "generate_im.238"
    /\ sample' = << Img(OUTPUT_SHAPE,
                        <<RDiv(out.px[1], R(255, 1)), RDiv(out.px[2], R(255, 1))>>),
                    code, ~out_of_bounds >>
    /\ bg' = None /\ plate' = None /\ plate_mask' = None /\ out' = None
    /\ pc' = Tail(pc)
    /\ UNCHANGED <<affine_vars, out_of_bounds, code_vars, bgs, found, picks,
                   plate_data, img_idx, written, load_vars>>

(* Lines 292 and 299-301: the sample is yielded; the loop body names the   *)
(* file "{:08d}_{}_{}" and writes im*255.                                  *)
WriteImage ==
    /\ pc # <<>> /\ Head(pc) = "yield"
    /\ written' = << <<img_idx, sample[2], Suffix(sample[3])>>,
                     Img(sample[1].shape,
                         <<RMul(sample[1].px[1], R(255, 1)),
                           RMul(sample[1].px[2], R(255, 1))>>) >>
    /\ img_idx' = img_idx + 1
    /\ pc' = Tail(pc)
    /\ UNCHANGED <<affine_vars, out_of_bounds, code_vars, bg_vars, plate_data,
                   plate, plate_mask, out, sample, load_vars>>

Next ==
    \/ ForNext
    \/ LoadEntry
    \/ ReturnPlates
    \/ ChoosePlate
    \/ PickBg
    \/ CropBg
    \/ CallGeneratePlate
    \/ DrawCode
    \/ ReturnCode
    \/ GeneratePlate
    \/ Composite
    \/ ReturnIm
    \/ WriteImage

Spec == Init /\ [][Next]_vars

----------------------------------------------------------------------------
(* euler_to_mat, called on its own with every triple of AngleTable.        *)

InitEuler ==
    /\ pc = <<"euler_to_mat">>
    /\ yaw \in AngleTable /\ pitch \in AngleTable /\ roll \in AngleTable
    /\ mat = <<>> /\ call = NoCall /\ scale = Zero /\ trans = <<>> /\ M = <<>>
    /\ out_of_bounds = FALSE
    /\ IdleCode /\ bgs = <<>> /\ IdleBg /\ IdleIm /\ folder = <<>> /\ IdleLoad

EulerToMat ==
    /\ pc # <<>> /\ Head(pc) = "euler_to_mat"
    /\ mat' = euler_to_mat(yaw, pitch, roll)
    /\ pc' = Tail(pc)
    /\ UNCHANGED <<yaw, pitch, roll, call, scale, trans, M, out_of_bounds,
                   code_vars, bg_vars, im_vars, load_vars>>

NextEuler == EulerToMat

SpecEuler == InitEuler /\ [][NextEuler]_vars

----------------------------------------------------------------------------
(* Properties of euler_to_mat.                                             *)

(* The right-handed rotation by angle a about the unit axis k, by          *)
(* Rodrigues' formula: cos(a) I + sin(a) [k]x + (1 - cos(a)) k k^T.        *)
CrossMatrix(k) ==
    <<<<0, -k[3], k[2]>>, <<k[3], 0, -k[1]>>, <<-k[2], k[1], 0>>>>

RefEntry(k, a, i, j) ==
    RAdd(RAdd(IF i = j THEN a.c ELSE Zero,
              RMul(a.s, <<CrossMatrix(k)[i][j], 1>>)),
         RMul(RSub(One, a.c), R(k[i] * k[j], 1)))

RefRotation(k, a) ==
    <<<<RefEntry(k, a, 1, 1), RefEntry(k, a, 1, 2), RefEntry(k, a, 1, 3)>>,
      <<RefEntry(k, a, 2, 1), RefEntry(k, a, 2, 2), RefEntry(k, a, 2, 3)>>,
      <<RefEntry(k, a, 3, 1), RefEntry(k, a, 3, 2), RefEntry(k, a, 3, 3)>>>>

RefSum(A, B, i, j) ==
    RAdd(RAdd(RMul(A[i][1], B[1][j]), RMul(A[i][2], B[2][j])),
         RMul(A[i][3], B[3][j]))

RefProduct(A, B) ==
    <<<<RefSum(A, B, 1, 1), RefSum(A, B, 1, 2), RefSum(A, B, 1, 3)>>,
      <<RefSum(A, B, 2, 1), RefSum(A, B, 2, 2), RefSum(A, B, 2, 3)>>,
      <<RefSum(A, B, 3, 1), RefSum(A, B, 3, 2), RefSum(A, B, 3, 3)>>>>

AxisX == <<1, 0, 0>>
AxisY == <<0, 1, 0>>
AxisZ == <<0, 0, 1>>

(* C4: for every angle triple, euler_to_mat returns Rz(roll) * Rx(pitch) * *)
(* Ry(yaw), the product of the right-handed axis rotations with yaw        *)
(* innermost and roll outermost.                                           *)
EulerIsRzRxRy ==
    pc = <<>> =>
        mat = RefProduct(RefRotation(AxisZ, roll),
                         RefProduct(RefRotation(AxisX, pitch),
                                    RefRotation(AxisY, yaw)))

(* A triple of quarter turns for which the order of the factors matters:   *)
(* the product with yaw and pitch exchanged is another matrix.             *)
EulerQuarterTurns ==
    /\ pc = <<>>
    /\ yaw.mrad = 1571 /\ pitch.mrad = 1571 /\ roll.mrad = -1571
    /\ mat # RefProduct(RefRotation(AxisZ, roll),
                        RefProduct(RefRotation(AxisY, yaw),
                                   RefRotation(AxisX, pitch)))

----------------------------------------------------------------------------
(* Properties of make_affine_transform.                                    *)

Less(x, y) == x[1] * y[2] < y[1] * x[2]

Exceeds(t) == Less(t, <<-4, 5>>) \/ Less(<<4, 5>>, t)

(* C1: the returned flag is true exactly when the sampled scale is         *)
(* strictly outside [min_scale, max_scale] or a component of the           *)
(* normalized translation is strictly outside [-0.80, 0.80].               *)
FlagIffScaleOrTransExceeds ==
    pc = <<>> =>
        (out_of_bounds <=>
            \/ Less(scale, call.min_scale)
            \/ Less(call.max_scale, scale)
            \/ Exceeds(trans[1])
            \/ Exceeds(trans[2]))

(* The scale sampled exactly at max_scale, above min_scale, and no flag.   *)
ScaleAtMaxNotFlagged ==
    /\ pc = <<>>
    /\ scale = call.max_scale
    /\ call.min_scale # call.max_scale
    /\ ~out_of_bounds

(* The image of the source corner (x, y) under the 2x3 matrix A.           *)
Image(A, i, x, y) ==
    RAdd(RAdd(RMul(A[i][1], <<x, 1>>), RMul(A[i][2], <<y, 1>>)), A[i][3])

BoxExtent(A, i, w, h) ==
    LET P == <<<<Image(A, i, 0, 0), Image(A, i, w, 0),
                 Image(A, i, 0, h), Image(A, i, w, h)>>>>
    IN  RSub(RowMax(P, 1), RowMin(P, 1))

(* C2: a transform returned with out_of_bounds = false maps the four       *)
(* corners of the source to a bounding box no wider and no higher than the *)
(* target canvas.                                                          *)
BoundingBoxFits ==
    (pc = <<>> /\ ~out_of_bounds) =>
        /\ ~Less(<<call.to_shape[2], 1>>,
                 BoxExtent(M, 1, call.from_shape[2], call.from_shape[1]))
        /\ ~Less(<<call.to_shape[1], 1>>,
                 BoxExtent(M, 2, call.from_shape[2], call.from_shape[1]))

Midpoint == RMul(RAdd(call.min_scale, call.max_scale), <<1, 2>>)

(* The canvas fit of an unrotated source: min(to_w / w, to_h / h).         *)
PlainFit ==
    LET fw == <<call.to_shape[2], call.from_shape[2]>>
        fh == <<call.to_shape[1], call.from_shape[1]>>
    IN  IF Less(fh, fw) THEN R(fh[1], fh[2]) ELSE R(fw[1], fw[2])

ZeroVariation ==
    /\ pc = <<>>
    /\ call.scale_variation = <<0, 1>>
    /\ call.rotation_variation = <<0, 1>>

ScaleAndRotationFixed ==
    /\ scale = Midpoint
    /\ roll.mrad = 0 /\ pitch.mrad = 0 /\ yaw.mrad = 0
    /\ M[1][1] = RMul(scale, PlainFit) /\ M[1][2] = <<0, 1>>
    /\ M[2][1] = <<0, 1>> /\ M[2][2] = RMul(scale, PlainFit)

(* C7 as stated: with scale_variation = 0 and rotation_variation = 0 the   *)
(* sampled scale is the midpoint, the rotation is zero and the flag is     *)
(* false, for every translation_variation.                                 *)
ZeroVariationNeverFlagged ==
    ZeroVariation => (ScaleAndRotationFixed /\ ~out_of_bounds)

(* C7 amended: with scale_variation = 0 and rotation_variation = 0 the     *)
(* sampled scale is the midpoint, the rotation is zero, and the flag is    *)
(* true exactly when a normalized translation component exceeds 0.80 in    *)
(* magnitude, which never happens for translation_variation <= 1.          *)
ZeroVariationFlagOnlyByTranslation ==
    ZeroVariation =>
        /\ ScaleAndRotationFixed
        /\ out_of_bounds <=> (Exceeds(trans[1]) \/ Exceeds(trans[2]))
        /\ ~Less(<<1, 1>>, call.translation_variation) => ~out_of_bounds

(* A call with both variations zero and the default translation_variation, *)
(* returning a translated, unflagged transform.                            *)
ZeroVariationDefaultTranslation ==
    /\ ZeroVariation
    /\ call.translation_variation = <<1, 1>>
    /\ trans[1] # <<0, 1>>
    /\ ~out_of_bounds

(* The flag of every returned plan is one of OutOfBoundsDraws.             *)
FlagIsADraw == pc = <<>> => out_of_bounds \in OutOfBoundsDraws(call)

----------------------------------------------------------------------------
(* Properties of generate_code.                                            *)

(* bad occurs in c at position i.                                          *)
OccursAt(bad, c, i) ==
    /\ i + Len(bad) - 1 <= Len(c)
    /\ \A j \in 1..Len(bad) : c[i + j - 1] = bad[j]

Clean(c, cn) ==
    \A bad \in banned_combinations(cn) : \A i \in 1..Len(c) : ~OccursAt(bad, c, i)

(* C6: the returned code is three letters, a space and three digits, and   *)
(* no entry of the locale's denylist occurs in it.                         *)
CodeFormatAndDenylist ==
    pc = <<>> =>
        /\ Len(code) = 7
        /\ \A i \in 1..3 : code[i] \in LETTERS
        /\ code[4] = " "
        /\ \A i \in 5..7 : code[i] \in DIGITS
        /\ Clean(code, country)

(* A code of locale "se" returned at the second draw, with the letters of  *)
(* a banned triple in another order.                                       *)
CodeReturnedAtSecondDraw ==
    /\ pc = <<>> /\ country = "se" /\ draws = 2
    /\ SubSeq(code, 1, 3) = <<"G", "A", "F">>

(* C9: the loop of generate_code ends; for locale None it ends after one   *)
(* draw; it ends only at a code without a banned substring.                *)
CodeLoopTerminates ==
    /\ <>(pc = <<>>)
    /\ [](pc = <<>> /\ country = "None" => draws = 1)
    /\ [][pc # <<>> /\ pc' = <<>> => Clean(code, country)]_vars

(* A code of locale "se" returned after two rejected draws.                *)
CodeReturnedAfterRejections ==
    pc = <<>> /\ country = "se" /\ draws = 3

----------------------------------------------------------------------------
(* Properties of generate_bg.                                              *)

At(label) == pc # <<>> /\ Head(pc) = label

Undersized(im) ==
    im = None \/ im.shape[1] < OUTPUT_SHAPE[1] \/ im.shape[2] < OUTPUT_SHAPE[2]

(* C10: a pick of a missing, unreadable or undersized image is followed by *)
(* another pass of the loop and by no error; the crop returned has the     *)
(* shape of the canvas and lies inside a readable image of the pool that   *)
(* is at least as large as the canvas.                                     *)
BgRetriesAndCropsInside ==
    /\ [](pc = <<"raised">> => picks = 0)
    /\ [][PickBg /\ Len(bgs) > 0 /\ Undersized(bg') => (pc' = pc /\ ~found')]_vars
    /\ [](pc = <<>> =>
            /\ bg.shape = OUTPUT_SHAPE
            /\ \E i \in 1..Len(bgs) : ~Undersized(bgs[i]) /\ bgs[i].shape = bg.of
            /\ 0 <= bg.y /\ bg.y + OUTPUT_SHAPE[1] <= bg.of[1]
            /\ 0 <= bg.x /\ bg.x + OUTPUT_SHAPE[2] <= bg.of[2])

(* A crop away from the corner of a larger image, returned after a pick    *)
(* that was rejected.                                                      *)
BgCropAfterRetry ==
    /\ pc = <<>> /\ picks >= 2
    /\ \E i \in 1..Len(bgs) : Undersized(bgs[i])
    /\ bg.of = <<3, 5>> /\ bg.x = 1 /\ bg.y = 1

----------------------------------------------------------------------------
(* Properties of load_plates.                                              *)

Complete(e) == e.isdir /\ Required \subseteq e.files

(* C8: a directory without one of the three files is never in the pool and *)
(* raises no error; when every descriptor has a non-empty offset, the pool *)
(* returned holds exactly the directories with all three files.            *)
LoadSkipsIncomplete ==
    /\ \A q \in plates : Complete(folder[q.name])
    /\ pc = <<"raised">> =>
           \E p \in DOMAIN folder : Complete(folder[p]) /\ folder[p].data # "offset"
    /\ pc = <<>> =>
           { q.name : q \in plates } = { p \in DOMAIN folder : Complete(folder[p]) }

(* A folder with a directory short of one file before a complete one: the  *)
(* pool returned holds the second only.                                    *)
LoadSkippedThenLoaded ==
    /\ pc = <<>>
    /\ folder[1].isdir /\ folder[1].files = { "data.json", "frame.png" }
    /\ Complete(folder[2])
    /\ { q.name : q \in plates } = { 2 }

----------------------------------------------------------------------------
(* Properties of generate_im and of the driver.                            *)

(* C3: after the plan, whatever its flag, generate_im composites once and  *)
(* returns a sample whose is_valid is NOT out_of_bounds; the driver writes *)
(* the suffix "1" exactly for a valid sample and "0" otherwise.            *)
FlagIsALabel ==
    /\ [][At("generate_im.218") => At("generate_im.238")']_vars
    /\ [][At("generate_im.238") =>
             /\ pc' = Tail(pc)
             /\ Len(sample') = 3
             /\ sample'[3] = ~out_of_bounds]_vars
    /\ [](At("yield") => (Len(sample) = 3 /\ sample[3] = ~out_of_bounds))
    /\ [](written # <<>> =>
             /\ (written[1][3] = "1" <=> sample[3])
             /\ (written[1][3] = "0" <=> ~sample[3]))

(* A flagged sample written with the suffix "0" after an unflagged one.    *)
FlaggedSampleWritten ==
    /\ written # <<>>
    /\ out_of_bounds /\ ~sample[3]
    /\ written[1][1] = 1 /\ written[1][3] = "0"

(* C5: at each pixel the composite is plate*mask + bg*(1 - mask) of the    *)
(* warped plate and the warped mask: the background where the mask is 0,   *)
(* the warped plate where it is 1.                                         *)
CompositeBlendsByMask ==
    At("generate_im.238") =>
        \A i \in 1..2 :
            LET m == plate_mask.px[i]
                o == out.px[i]
            IN  /\ o[1] * m[2] =
                       o[2] * (plate.px[i] * m[1] + bg.px[i] * (m[2] - m[1]))
                /\ m = <<0, 1>> => o = <<bg.px[i], 1>>
                /\ m = <<1, 1>> => o = <<plate.px[i], 1>>

(* A composite with one pixel outside the plate and one inside it, where   *)
(* the plate and the background differ.                                    *)
CompositeOfBothKinds ==
    /\ At("generate_im.238")
    /\ plate_mask.px = <<<<0, 1>>, <<1, 1>>>>
    /\ out.px = <<<<bg.px[1], 1>>, <<plate.px[2], 1>>>>
    /\ plate.px[2] # bg.px[2]
    /\ bg.px[1] # 0

====
